---- MODULE Spec2Model ----
(***************************************************************************)
(* Model of liquidctl/driver/logitech_g502.py: the LogitechHero502 driver. *)
(*                                                                         *)
(* Python strings are sequences of one-character strings, so that          *)
(* str.lower(), the format spec 04x and re.findall(r'\d+', ...) are        *)
(* computed rather than assumed.  A bytearray is a sequence of integers;   *)
(* the byte at offset k is element k + 1.                                  *)
(*                                                                         *)
(* The driver is used by one synchronous caller: pc is the caller's        *)
(* position, "idle" between calls and "returned" once a driver method has  *)
(* returned or raised.  call, result, transport and io describe the call   *)
(* in progress: its arguments, its outcome, how the HID transport behaved  *)
(* during it and the transport operations the driver invoked, in order.    *)
(***************************************************************************)
EXTENDS Integers, Sequences, FiniteSets, TLC

VARIABLES vendor_id, product_id, address, _data, pc, call, result, transport, io

vars == <<vendor_id, product_id, address, _data, pc, call, result, transport, io>>

(* Longest colors argument the caller passes. *)
MaxColors == 2

(* _REPORT_LENGTH, local to set_color. *)
_REPORT_LENGTH == 20

None == [t |-> "NoneType", v |-> <<>>]

-----------------------------------------------------------------------------
(* Python values and strings *)

PyStr(s) == [t |-> "str", v |-> s]
PyInt(n) == [t |-> "int", v |-> n]

(* Python ==: values of different types are never equal. *)
PyEq(a, b) == a.t = b.t /\ a.v = b.v

UpperCase == <<"A","B","C","D","E","F","G","H","I","J","K","L","M",
               "N","O","P","Q","R","S","T","U","V","W","X","Y","Z">>
LowerCase == <<"a","b","c","d","e","f","g","h","i","j","k","l","m",
               "n","o","p","q","r","s","t","u","v","w","x","y","z">>

LowerChar(c) ==
    IF \E k \in 1..26 : UpperCase[k] = c
    THEN LowerCase[CHOOSE k \in 1..26 : UpperCase[k] = c]
    ELSE c

(* str.lower() *)
lower(s) == [i \in 1..Len(s) |-> LowerChar(s[i])]

(* sep.join(parts) *)
RECURSIVE join(_, _)
join(sep, parts) ==
    IF parts = <<>> THEN <<>>
    ELSE IF Len(parts) = 1 THEN parts[1]
    ELSE parts[1] \o sep \o join(sep, Tail(parts))

-----------------------------------------------------------------------------
(* connect: the storage key *)

HexChars == <<"0","1","2","3","4","5","6","7","8","9","a","b","c","d","e","f">>

RECURSIVE HexDigits(_)
HexDigits(n) ==
    IF n < 16 THEN <<HexChars[n + 1]>>
    ELSE HexDigits(n \div 16) \o <<HexChars[(n % 16) + 1]>>

RECURSIVE ZeroPad(_, _)
ZeroPad(s, width) ==
    IF Len(s) >= width THEN s ELSE ZeroPad(<<"0">> \o s, width)

(* format(n, '04x') *)
format_04x(n) == ZeroPad(HexDigits(n), 4)

(* f'vid{vendor_id:04x}_pid{product_id:04x}' *)
ids_of(vid, pid) ==
    <<"v","i","d">> \o format_04x(vid) \o <<"_","p","i","d">> \o format_04x(pid)

IsDigit(c) == c \in {"0","1","2","3","4","5","6","7","8","9"}

(* A plausible slip: the pattern \d, which matches one digit at a time. *)
MatchEnd_one_digit(s, i) == i

(* End of the greedy match of \d+ that starts at position i. *)
RECURSIVE MatchEnd(_, _)
MatchEnd(s, i) ==
    IF i < Len(s) /\ IsDigit(s[i + 1]) THEN MatchEnd(s, i + 1) ELSE i

(* re.findall(r'\d+', s), scanning from position i: leftmost match first, *)
(* the search resumes after the end of each match.                         *)
RECURSIVE findall_digits_from(_, _)
findall_digits_from(s, i) ==
    IF i > Len(s) THEN <<>>
    ELSE IF IsDigit(s[i])
         THEN <<SubSeq(s, i, MatchEnd(s, i))>>
                  \o findall_digits_from(s, MatchEnd(s, i) + 1)
         ELSE findall_digits_from(s, i + 1)

findall_digits(s) == findall_digits_from(s, 1)

(* 'loc' + '_'.join(re.findall(r'\d+', address)) *)
loc_of(addr) == <<"l","o","c">> \o join(<<"_">>, findall_digits(addr))

(* RuntimeStorage(key_prefixes=[ids, loc]) *)
RuntimeStorage(key_prefixes) == [t |-> "RuntimeStorage", v |-> key_prefixes]

-----------------------------------------------------------------------------
(* Outcomes of a driver call *)

EmptyList == [t |-> "list", v |-> <<>>]

Returned(value) ==
    [kind |-> "return", exc |-> "", text |-> "", arg |-> <<>>, value |-> value]

(* text is the message, arg the value formatted into it (if any). *)
Raised(exc, text, arg) ==
    [kind |-> "raise", exc |-> exc, text |-> text, arg |-> arg, value |-> None]

-----------------------------------------------------------------------------
(* set_color *)

(* A plausible slip: the final else selects the logo instead of raising. *)
channel_rebound_else_logo(channel) ==
    IF PyEq(channel, PyStr(<<"d","p","i">>))
    THEN [ok |-> TRUE, v |-> PyInt(0)]
    ELSE [ok |-> TRUE, v |-> PyInt(1)]

(* if channel == 'dpi': ... elif channel == 'logo': ... else: raise *)
channel_rebound(channel) ==
    IF PyEq(channel, PyStr(<<"d","p","i">>))
    THEN [ok |-> TRUE, v |-> PyInt(0)]
    ELSE IF PyEq(channel, PyStr(<<"l","o","g","o">>))
         THEN [ok |-> TRUE, v |-> PyInt(1)]
         ELSE [ok |-> FALSE, v |-> channel]

(* if mode == 'off': ... elif ... else: raise *)
mode_rebound(mode) ==
    IF PyEq(mode, PyStr(<<"o","f","f">>))
    THEN [ok |-> TRUE, v |-> PyInt(0)]
    ELSE IF PyEq(mode, PyStr(<<"f","i","x","e","d">>))
    THEN [ok |-> TRUE, v |-> PyInt(1)]
    ELSE IF PyEq(mode, PyStr(<<"b","r","e","a","t","h","i","n","g">>))
    THEN [ok |-> TRUE, v |-> PyInt(2)]
    ELSE IF PyEq(mode, PyStr(<<"r","a","i","n","b","o","w">>))
    THEN [ok |-> TRUE, v |-> PyInt(3)]
    ELSE [ok |-> FALSE, v |-> mode]

(* (mode == 'fixed' or mode == 'breathing') and len(colors) != 1, *)
(* evaluated on mode as rebound by the chain above.                *)
one_color_violated(mode, colors) ==
    /\ \/ PyEq(mode, PyStr(<<"f","i","x","e","d">>))
       \/ PyEq(mode, PyStr(<<"b","r","e","a","t","h","i","n","g">>))
    /\ Len(colors) # 1

(* A plausible slip: colors[-1] instead of colors[0]. *)
resolve_color_last(colors) ==
    IF Len(colors) = 0 THEN <<0, 0, 0>> ELSE colors[Len(colors)]

(* color = (0,0,0) if len(colors) == 0 else colors[0] *)
resolve_color(colors) ==
    IF Len(colors) = 0 THEN <<0, 0, 0>> ELSE colors[1]

(* bytearray(n): n zero bytes *)
bytearray(n) == [i \in 1..n |-> 0]

(* buf[off] = x succeeds only for x in range(0, 256) *)
IsByte(x) == x \in 0..255

setitem(buf, off, x) == [buf EXCEPT ![off + 1] = x]

(* A plausible slip: bytearray(_REPORT_LENGTH), without the report-ID byte. *)
report_header_short ==
    setitem(setitem(setitem(setitem(bytearray(_REPORT_LENGTH),
        1, 17), 2, 255), 3, 2), 4, 58)

(* buf = bytearray(_REPORT_LENGTH + 1); buf[1] = 0x11; ... buf[4] = 0x3A *)
report_header ==
    setitem(setitem(setitem(setitem(bytearray(_REPORT_LENGTH + 1),
        1, 17), 2, 255), 3, 2), 4, 58)

(* buf[5] = channel ... buf[9] = color[2]: the assignments in order; the *)
(* first value that is not a byte raises ValueError and ends the call.   *)
RECURSIVE assign_bytes(_, _, _)
assign_bytes(buf, off, values) ==
    IF values = <<>> THEN [ok |-> TRUE, buf |-> buf]
    ELSE IF ~IsByte(Head(values)) THEN [ok |-> FALSE, buf |-> buf]
    ELSE assign_bytes(setitem(buf, off, Head(values)), off + 1, Tail(values))

(* A plausible slip: mode compared with its name after it was rebound. *)
fixed_flag_by_name(buf, mode) ==
    IF PyEq(mode, PyStr(<<"f","i","x","e","d">>)) THEN setitem(buf, 10, 2) ELSE buf

(* if mode == 0x01: buf[10] = 0x02 *)
fixed_flag(buf, mode) ==
    IF PyEq(mode, PyInt(1)) THEN setitem(buf, 10, 2) ELSE buf

(* Lines 151-166: the report for the rebound channel and mode. *)
build_report(channel, mode, color) ==
    LET filled == assign_bytes(report_header, 5,
                     <<channel.v, mode.v, color[1], color[2], color[3]>>)
    IN  IF filled.ok
        THEN [ok |-> TRUE, buf |-> fixed_flag(filled.buf, mode)]
        ELSE filled

ClearOp == [op |-> "clear_enqueued_reports", args |-> <<>>]
WriteOp(buf) == [op |-> "write", args |-> <<buf>>]
ReadOp(length) == [op |-> "read", args |-> <<length>>]

(* A plausible slip: the write is issued before the stale reports are *)
(* discarded.                                                         *)
round_trip_calls_write_first(buf) ==
    <<WriteOp(buf), ClearOp, ReadOp(_REPORT_LENGTH)>>

(* Lines 168-171: the transport calls in program order. *)
round_trip_calls(buf) == <<ClearOp, WriteOp(buf), ReadOp(_REPORT_LENGTH)>>

(* The calls actually invoked: an exception raised by a transport call *)
(* propagates, so the calls after it are not made.                     *)
round_trip(buf, tr) ==
    LET calls == round_trip_calls(buf)
        made  == IF \E k \in 1..Len(calls) : calls[k].op = tr.fails
                 THEN CHOOSE k \in 1..Len(calls) : calls[k].op = tr.fails
                 ELSE Len(calls)
    IN  [io     |-> SubSeq(calls, 1, made),
         result |-> IF tr.fails = "none"
                    THEN Returned(None)
                    ELSE Raised("TransportError", "raised by the transport", <<>>)]

(* Lines 148-171, a plausible slip: the stale reports are discarded *)
(* before the buffer is built.                                      *)
send_report_clear_first(channel, mode, colors, tr) ==
    LET report == build_report(channel, mode, resolve_color(colors))
    IN  IF tr.fails = "clear_enqueued_reports" THEN round_trip(report.buf, tr)
        ELSE IF ~report.ok
        THEN [io |-> <<ClearOp>>,
              result |-> Raised("ValueError",
                  "byte must be in range(0, 256)", <<>>)]
        ELSE round_trip(report.buf, tr)

(* Lines 148-171: resolve the color, build the report, then the round *)
(* trip; a failed byte assignment ends the call before any I/O.       *)
send_report(channel, mode, colors, tr) ==
    LET report == build_report(channel, mode, resolve_color(colors))
    IN  IF ~report.ok
        THEN [io |-> <<>>,
              result |-> Raised("ValueError",
                  "byte must be in range(0, 256)", <<>>)]
        ELSE round_trip(report.buf, tr)

(* The whole of set_color: outcome and transport calls. *)
set_color(channel, mode, colors, tr) ==
    LET ch == channel_rebound(PyStr(lower(channel)))
        md == mode_rebound(PyStr(lower(mode)))
    IN  IF ~ch.ok
        THEN [io |-> <<>>,
              result |-> Raised("ValueError",
                  "Channel {channel} invalid, must be one of (\"dpi\", \"logo\")",
                  ch.v.v)]
        ELSE IF ~md.ok
        THEN [io |-> <<>>,
              result |-> Raised("ValueError",
                  "Mode {mode} invalid, must be one of (\"off\", \"fixed\", \"breathing\", \"rainbow\")",
                  md.v.v)]
        ELSE IF one_color_violated(md.v, colors)
        THEN [io |-> <<>>,
              result |-> Raised("ValueError", "One color must be given", <<>>)]
        ELSE send_report(ch.v, md.v, colors, tr)

-----------------------------------------------------------------------------
(* The other driver methods *)

(* A plausible slip: initialize sends a report to the device. *)
initialize_writes(pump_mode) ==
    [io |-> <<WriteOp(report_header)>>, result |-> Returned(EmptyList)]

(* initialize: return [] *)
initialize(pump_mode) == [io |-> <<>>, result |-> Returned(EmptyList)]

(* get_status: return [] *)
get_status == [io |-> <<>>, result |-> Returned(EmptyList)]

(* A plausible slip: a silent no-op instead of the exception. *)
set_fixed_speed_silent(channel, duty) ==
    [io |-> <<>>, result |-> Returned(None)]

(* set_fixed_speed: raise NotSupportedByDevice() *)
set_fixed_speed(channel, duty) ==
    [io |-> <<>>, result |-> Raised("NotSupportedByDevice", "", <<>>)]

(* set_speed_profile: raise NotSupportedByDevice() *)
set_speed_profile(channel, profile) ==
    [io |-> <<>>, result |-> Raised("NotSupportedByDevice", "", <<>>)]

(* connect: the value assigned to self._data *)
connect_data(vid, pid, addr) ==
    RuntimeStorage(<<ids_of(vid, pid), loc_of(addr)>>)

-----------------------------------------------------------------------------
(* Inputs *)

(* The HID devices a driver instance is constructed for: vendor ID, *)
(* product ID and the address (HID path) the platform reports.      *)
Devices ==
    { [vid |-> 1133, pid |-> 49291,
       addr |-> <<"I","O","S","e","r","v","i","c","e",":","/","A","p","p",
                  "l","e","U","S","B","/",".",".",".","/","3","/","4">>],
      [vid |-> 1133, pid |-> 49291,
       addr |-> <<"/","d","e","v","/","h","i","d","r","a","w","1","2">>],
      [vid |-> 0, pid |-> 65535, addr |-> <<"u","s","b">>],
      [vid |-> 10, pid |-> 256, addr |-> <<>>],
      [vid |-> 43981, pid |-> 1,
       addr |-> <<"0","0","0","3",":","0","0","a","7",":","0","0",".","9","x">>] }

ChannelArgs ==
    { <<"d","p","i">>, <<"D","P","I">>, <<"l","o","g","o">>,
      <<"L","o","g","o">>, <<"w","h","e","e","l">> }

ModeArgs ==
    { <<"o","f","f">>, <<"f","i","x","e","d">>, <<"F","I","X","E","D">>,
      <<"b","r","e","a","t","h","i","n","g">>, <<"R","a","i","n","b","o","w">>,
      <<"r","a","i","n","b","o","w">>, <<"p","u","l","s","e">> }

(* [red, green, blue] triples, some with a component outside 0..255. *)
ColorArgs ==
    { <<10, 20, 30>>, <<255, 0, 128>>, <<256, 0, 0>>, <<1, -1, 300>> }

RECURSIVE SeqsUpTo(_, _)
SeqsUpTo(S, n) ==
    IF n = 0 THEN { <<>> }
    ELSE LET shorter == SeqsUpTo(S, n - 1)
         IN  shorter \cup { Append(q, x) : q \in shorter, x \in S }

ColorsArgs == SeqsUpTo(ColorArgs, MaxColors)

Response(first) == [i \in 1.._REPORT_LENGTH |-> IF i = 1 THEN first ELSE 0]

(* What the transport does during one call: which of its operations *)
(* raises (if any), and the bytes read() returns when it is reached. *)
TransportBehaviours ==
    { [fails |-> "clear_enqueued_reports", response |-> <<>>],
      [fails |-> "write", response |-> <<>>],
      [fails |-> "read", response |-> <<>>],
      [fails |-> "none", response |-> Response(17)],
      [fails |-> "none", response |-> Response(255)] }

Untouched == [fails |-> "none", response |-> <<>>]

PumpModeArgs == { "balanced", "quiet", "extreme", "turbo" }
SpeedChannelArgs == { "fan", "pump", "logo" }
DutyArgs == { 0, 50, 100, 101 }
ProfileArgs == { <<>>, <<<<20, 30>>>>, <<<<20, 30>>, <<40, 100>>>> }

NoCall == [op |-> "", args |-> <<>>]
NoResult == [kind |-> "", exc |-> "", text |-> "", arg |-> <<>>, value |-> None]

-----------------------------------------------------------------------------
(* The driver *)

(* __init__: self._data = None; the device fixes vendor_id, product_id *)
(* and address.                                                        *)
Init ==
    /\ \E d \in Devices :
          /\ vendor_id = d.vid
          /\ product_id = d.pid
          /\ address = d.addr
    /\ _data = None
    /\ pc = "idle"
    /\ call = NoCall
    /\ result = NoResult
    /\ transport = Untouched
    /\ io = <<>>

Device == <<vendor_id, product_id, address>>

(* connect(): super().connect() opens the HID device (base class, no *)
(* clear, write or read), then the storage key is built.             *)
Connect ==
    /\ pc = "idle"
    /\ pc' = "returned"
    /\ call' = [op |-> "connect", args |-> <<>>]
    /\ _data' = connect_data(vendor_id, product_id, address)
    /\ result' = Returned(None)
    /\ io' = <<>>
    /\ UNCHANGED <<Device, transport>>

Initialize ==
    /\ pc = "idle"
    /\ \E pump_mode \in PumpModeArgs :
          /\ call' = [op |-> "initialize", args |-> <<pump_mode>>]
          /\ result' = initialize(pump_mode).result
          /\ io' = initialize(pump_mode).io
    /\ pc' = "returned"
    /\ UNCHANGED <<Device, _data, transport>>

GetStatus ==
    /\ pc = "idle"
    /\ call' = [op |-> "get_status", args |-> <<>>]
    /\ result' = get_status.result
    /\ io' = get_status.io
    /\ pc' = "returned"
    /\ UNCHANGED <<Device, _data, transport>>

SetFixedSpeed ==
    /\ pc = "idle"
    /\ \E channel \in SpeedChannelArgs, duty \in DutyArgs :
          /\ call' = [op |-> "set_fixed_speed", args |-> <<channel, duty>>]
          /\ result' = set_fixed_speed(channel, duty).result
          /\ io' = set_fixed_speed(channel, duty).io
    /\ pc' = "returned"
    /\ UNCHANGED <<Device, _data, transport>>

SetSpeedProfile ==
    /\ pc = "idle"
    /\ \E channel \in SpeedChannelArgs, profile \in ProfileArgs :
          /\ call' = [op |-> "set_speed_profile", args |-> <<channel, profile>>]
          /\ result' = set_speed_profile(channel, profile).result
          /\ io' = set_speed_profile(channel, profile).io
    /\ pc' = "returned"
    /\ UNCHANGED <<Device, _data, transport>>

SetColor ==
    /\ pc = "idle"
    /\ \E channel \in ChannelArgs, mode \in ModeArgs,
          colors \in ColorsArgs, tr \in TransportBehaviours :
          LET out == set_color(channel, mode, colors, tr)
          IN  /\ call' = [op |-> "set_color",
                          args |-> [channel |-> channel, mode |-> mode,
                                    colors |-> colors]]
              /\ result' = out.result
              /\ io' = out.io
              /\ transport' = IF out.io = <<>> THEN Untouched ELSE tr
    /\ pc' = "returned"
    /\ UNCHANGED <<Device, _data>>

(* The caller takes the outcome and is ready for its next call. *)
Return ==
    /\ pc = "returned"
    /\ pc' = "idle"
    /\ call' = NoCall
    /\ result' = NoResult
    /\ transport' = Untouched
    /\ io' = <<>>
    /\ UNCHANGED <<Device, _data>>

Next ==
    \/ Connect
    \/ Initialize
    \/ GetStatus
    \/ SetFixedSpeed
    \/ SetSpeedProfile
    \/ SetColor
    \/ Return

Spec == Init /\ [][Next]_vars

-----------------------------------------------------------------------------
(* Vocabulary of the properties *)

SetColorDone == pc = "returned" /\ call.op = "set_color"

ChannelName == lower(call.args.channel)
ModeName == lower(call.args.mode)

ChannelNames == { <<"d","p","i">>, <<"l","o","g","o">> }
ModeNames == { <<"o","f","f">>, <<"f","i","x","e","d">>,
               <<"b","r","e","a","t","h","i","n","g">>,
               <<"r","a","i","n","b","o","w">> }
SingleColorModes == { <<"f","i","x","e","d">>,
                      <<"b","r","e","a","t","h","i","n","g">> }

ChannelCodeOf(name) == IF name = <<"d","p","i">> THEN 0 ELSE 1

ModeCodeOf(name) ==
    CASE name = <<"o","f","f">> -> 0
      [] name = <<"f","i","x","e","d">> -> 1
      [] name = <<"b","r","e","a","t","h","i","n","g">> -> 2
      [] name = <<"r","a","i","n","b","o","w">> -> 3

NamesValid == ChannelName \in ChannelNames /\ ModeName \in ModeNames

(* Validation steps 2 to 4 of the lighting command encoder. *)
RequestValid ==
    /\ NamesValid
    /\ ModeName \in SingleColorModes => Len(call.args.colors) = 1

FirstColor ==
    IF call.args.colors = <<>> THEN <<0, 0, 0>> ELSE call.args.colors[1]

ColorInRange == \A k \in 1..3 : FirstColor[k] >= 0 /\ FirstColor[k] <= 255

InvalidArgument == result.kind = "raise" /\ result.exc = "ValueError"

(* The buffers handed to write() during the call. *)
Written == { io[k].args[1] : k \in { j \in 1..Len(io) : io[j].op = "write" } }

OpNames == [k \in 1..Len(io) |-> io[k].op]

-----------------------------------------------------------------------------
(* C1: a set_color call with a valid channel, mode "fixed" or "breathing" *)
(* and a number of colors other than one fails with ValueError and makes  *)
(* no transport call.  Stated here for the calls during which no          *)
(* transport operation raises.                                            *)
C1_OneColorRequired ==
    (SetColorDone /\ NamesValid /\ ModeName \in SingleColorModes
        /\ Len(call.args.colors) # 1 /\ transport.fails = "none")
    => (InvalidArgument /\ io = <<>>)

(* C2: a set_color call whose lowercased channel or mode is not accepted  *)
(* fails with ValueError and makes no transport call, whatever the        *)
(* colors; the channel is checked first, so an invalid channel gives the  *)
(* channel error even when the mode is invalid too.                       *)
C2_InvalidNamesRejected ==
    (SetColorDone /\ ~NamesValid)
    => /\ InvalidArgument
       /\ io = <<>>
       /\ IF ChannelName \notin ChannelNames
          THEN /\ result.text =
                    "Channel {channel} invalid, must be one of (\"dpi\", \"logo\")"
               /\ result.arg = ChannelName
          ELSE /\ result.text =
                    "Mode {mode} invalid, must be one of (\"off\", \"fixed\", \"breathing\", \"rainbow\")"
               /\ result.arg = ModeName

C2_Witness ==
    /\ SetColorDone
    /\ ChannelName \notin ChannelNames
    /\ ModeName \notin ModeNames
    /\ call.args.colors # <<>>
    /\ InvalidArgument
    /\ result.arg = <<"w","h","e","e","l">>

(* C3 as stated: every set_color call that passes validation makes        *)
(* exactly three transport calls, clear_enqueued_reports, write with the  *)
(* 21-byte buffer, read with length 20, in this order.  Stated here for   *)
(* the calls during which no transport operation raises.                  *)
C3_AlwaysThreeCalls ==
    (SetColorDone /\ RequestValid /\ transport.fails = "none")
    => /\ Len(io) = 3
       /\ OpNames = <<"clear_enqueued_reports", "write", "read">>
       /\ Len(io[2].args[1]) = 21
       /\ io[3].args = <<20>>

(* C3 amended: a set_color call that passes validation and whose resolved *)
(* color has every component in 0..255 calls clear_enqueued_reports, then *)
(* write with the 21-byte buffer, then read with length 20, each once and *)
(* in this order, up to the first transport call that raises; when none   *)
(* raises, all three are made and the call returns None whatever bytes    *)
(* were read.                                                             *)
C3_RoundTripOrder ==
    (SetColorDone /\ RequestValid /\ ColorInRange)
    => /\ Len(io) >= 1 /\ Len(io) <= 3
       /\ OpNames = SubSeq(<<"clear_enqueued_reports", "write", "read">>,
                           1, Len(io))
       /\ Len(io) >= 2 => (Len(io[2].args) = 1 /\ Len(io[2].args[1]) = 21)
       /\ Len(io) = 3 => io[3].args = <<20>>
       /\ IF transport.fails = "none"
          THEN Len(io) = 3 /\ result = Returned(None)
          ELSE io[Len(io)].op = transport.fails /\ result.kind = "raise"

C3_Witness ==
    /\ SetColorDone
    /\ RequestValid
    /\ ColorInRange
    /\ Len(io) = 3
    /\ transport.response = Response(255)
    /\ result = Returned(None)

(* C4: in every buffer set_color writes, offset 5 is the channel code,    *)
(* offset 6 the mode code, and offsets 7, 8, 9 the red, green and blue of *)
(* the first entry of colors, or 0, 0, 0 when colors is empty, whatever   *)
(* the mode.                                                              *)
C4_ChannelModeColorBytes ==
    SetColorDone =>
        \A buf \in Written :
            /\ buf[6] = ChannelCodeOf(ChannelName)
            /\ buf[7] = ModeCodeOf(ModeName)
            /\ <<buf[8], buf[9], buf[10]>> = FirstColor

C4_Witness ==
    /\ SetColorDone
    /\ Written # {}
    /\ ModeName = <<"r","a","i","n","b","o","w">>
    /\ ChannelName = <<"l","o","g","o">>
    /\ Len(call.args.colors) = 2
    /\ call.args.colors[1] = <<255, 0, 128>>
    /\ call.args.colors[2] = <<10, 20, 30>>

(* C5: every buffer set_color writes is 21 bytes long, has 0x11, 0xFF,    *)
(* 0x02, 0x3A at offsets 1 to 4 and zero at offset 0 and at offsets 11 to *)
(* 20.                                                                    *)
C5_HeaderAndLength ==
    SetColorDone =>
        \A buf \in Written :
            /\ Len(buf) = 21
            /\ <<buf[2], buf[3], buf[4], buf[5]>> = <<17, 255, 2, 58>>
            /\ buf[1] = 0
            /\ \A off \in 11..20 : buf[off + 1] = 0

C5_Witness ==
    /\ SetColorDone
    /\ Written # {}
    /\ ModeName = <<"f","i","x","e","d">>
    /\ FirstColor = <<255, 0, 128>>

(* C6: in every buffer set_color writes, offset 10 is 0x02 if the         *)
(* requested mode is "fixed" and 0 for off, breathing and rainbow.        *)
C6_FixedFlag ==
    SetColorDone =>
        \A buf \in Written :
            buf[11] = (IF ModeName = <<"f","i","x","e","d">> THEN 2 ELSE 0)

C6_Witness ==
    /\ SetColorDone
    /\ Written # {}
    /\ call.args.mode = <<"F","I","X","E","D">>
    /\ call.args.channel = <<"D","P","I">>
    /\ call.args.colors = << <<10, 20, 30>> >>
    /\ Written = { <<0, 17, 255, 2, 58, 0, 1, 10, 20, 30, 2,
                     0, 0, 0, 0, 0, 0, 0, 0, 0, 0>> }

(* C7: set_fixed_speed and set_speed_profile raise NotSupportedByDevice   *)
(* for every argument, before and after connect, make no transport call   *)
(* and change neither the storage key nor the device identity.            *)
C7_SpeedControlNotSupported ==
    [][ (pc = "idle" /\ call'.op \in {"set_fixed_speed", "set_speed_profile"})
        => /\ result' = Raised("NotSupportedByDevice", "", <<>>)
           /\ io' = <<>>
           /\ _data' = _data
           /\ Device' = Device ]_vars

C7_Witness ==
    /\ pc = "returned"
    /\ call.op = "set_fixed_speed"
    /\ call.args = <<"logo", 101>>
    /\ _data # None
    /\ result.exc = "NotSupportedByDevice"

(* C8: initialize and get_status return an empty list for every argument, *)
(* make no transport call and leave _data unchanged; _data is None until  *)
(* the first connect and only connect changes it.                         *)
C8_NoOpsKeepIdentity ==
    /\ _data = None
    /\ [][ /\ (pc = "idle" /\ call'.op \in {"initialize", "get_status"})
              => /\ result' = Returned(EmptyList)
                 /\ io' = <<>>
                 /\ _data' = _data
           /\ _data' # _data => call'.op = "connect" ]_vars

C8_Witness ==
    /\ pc = "returned"
    /\ call.op = "initialize"
    /\ call.args = <<"turbo">>
    /\ _data # None
    /\ result = Returned(EmptyList)
    /\ io = <<>>

DigitChars == {"0","1","2","3","4","5","6","7","8","9"}
LowerHexChars == <<"0","1","2","3","4","5","6","7","8","9",
                   "a","b","c","d","e","f">>

LowerHexValue(c) == (CHOOSE d \in 1..16 : LowerHexChars[d] = c) - 1

(* h is four lowercase hexadecimal digits denoting n. *)
IsHex4(h, n) ==
    /\ Len(h) = 4
    /\ \A k \in 1..4 : \E d \in 1..16 : LowerHexChars[d] = h[k]
    /\ n = LowerHexValue(h[1]) * 4096 + LowerHexValue(h[2]) * 256
             + LowerHexValue(h[3]) * 16 + LowerHexValue(h[4])

(* The digits of s from position i on, in order, with "_" before each *)
(* digit that starts a new run after an earlier one.                  *)
RECURSIVE DigitRunsJoined(_, _, _)
DigitRunsJoined(s, i, seen) ==
    IF i > Len(s) THEN <<>>
    ELSE IF s[i] \notin DigitChars THEN DigitRunsJoined(s, i + 1, seen)
    ELSE (IF seen /\ s[i - 1] \notin DigitChars THEN <<"_">> ELSE <<>>)
             \o <<s[i]>> \o DigitRunsJoined(s, i + 1, TRUE)

(* C9: connect sets the storage key to the pair (ids, loc): ids is "vid", *)
(* the vendor ID as four zero-padded lowercase hex digits, "_pid" and the *)
(* product ID in the same format; loc is "loc" followed by the maximal    *)
(* runs of decimal digits of the address, in order, joined with "_", and  *)
(* exactly "loc" when the address has no digit; connect does not fail.    *)
C9_StorageKey ==
    (pc = "returned" /\ call.op = "connect")
    => /\ result = Returned(None)
       /\ _data.t = "RuntimeStorage"
       /\ Len(_data.v) = 2
       /\ LET ids == _data.v[1]
              loc == _data.v[2]
          IN  /\ Len(ids) = 15
              /\ SubSeq(ids, 1, 3) = <<"v","i","d">>
              /\ IsHex4(SubSeq(ids, 4, 7), vendor_id)
              /\ SubSeq(ids, 8, 11) = <<"_","p","i","d">>
              /\ IsHex4(SubSeq(ids, 12, 15), product_id)
              /\ loc = <<"l","o","c">> \o DigitRunsJoined(address, 1, FALSE)
              /\ (\A k \in 1..Len(address) : address[k] \notin DigitChars)
                 => loc = <<"l","o","c">>

C9_Witness ==
    /\ pc = "returned"
    /\ call.op = "connect"
    /\ vendor_id = 1133
    /\ product_id = 49291
    /\ Len(address) = 27
    /\ _data = RuntimeStorage(
           << <<"v","i","d","0","4","6","d","_","p","i","d","c","0","8","b">>,
              <<"l","o","c","3","_","4">> >>)

(* C10: a set_color call that fails before the write because the channel  *)
(* is invalid, the mode is invalid or the resolved color has a component  *)
(* outside 0..255 makes no transport call at all, and so does every call  *)
(* that raises ValueError; a write, when there is one, carries the        *)
(* complete 21-byte report.                                               *)
C10_NoPartialRoundTrip ==
    SetColorDone =>
        /\ (~NamesValid \/ ~ColorInRange) => (InvalidArgument /\ io = <<>>)
        /\ InvalidArgument => io = <<>>
        /\ \A buf \in Written :
              /\ Len(buf) = 21
              /\ \A k \in 1..21 : buf[k] \in 0..255
              /\ <<buf[2], buf[3], buf[4], buf[5]>> = <<17, 255, 2, 58>>
              /\ <<buf[8], buf[9], buf[10]>> = FirstColor
              /\ ModeName = <<"f","i","x","e","d">> => buf[11] = 2

C10_Witness ==
    /\ SetColorDone
    /\ NamesValid
    /\ call.args.colors = << <<1, -1, 300>>, <<10, 20, 30>> >>
    /\ result = Raised("ValueError", "byte must be in range(0, 256)", <<>>)
    /\ io = <<>>

====
